---- MODULE Spec2Model ----
(***************************************************************************)
(* Model of the animation-server pipeline: the session store               *)
(* (SessionManager), the upload handler (processUpload), the pipeline run  *)
(* (processFiles) with its un-awaited progress callbacks, the status       *)
(* query (getStatus) and the retention sweeper (cleanupOldSessions).       *)
(*                                                                         *)
(* Every fs call of updateSession is a step of its own (readFile, mkdir,   *)
(* the open/truncate of writeFile, the end of writeFile), because the      *)
(* code awaits each of them and takes no lock: other updates of the same   *)
(* job, status queries and the sweeper interleave between them.            *)
(* Time is counted in hours.                                               *)
(***************************************************************************)
EXTENDS Integers, FiniteSets, Sequences, TLC

\* ------------------------------------------------------------- bounds
MaxFiles == 2      \* files in an uploaded archive
MaxPending == 1    \* un-awaited updateSession calls in flight for one job
MaxTicks == 2      \* clock ticks modelled
MaxItems == 2      \* commands in a generated list
MaxReleases == 2   \* cleanupPath calls on one path from outside its run
LongItems == 51    \* pairs of characters in the overlong generated text

\* -------------------------------------------------- program constants
SESSION_CLEANUP_HOURS == 24
TickHours == SESSION_CLEANUP_HOURS    \* the clock advances by the sweep interval
TRANSLATION_TIMEOUT_MINUTES == 30
TRANSLATION_CHECK_INTERVAL == 10000
NotFoundGrace == 3
DataAttempts == 5
LastStage == 10
DiagnosticLength == 100

JobIds == {"j1", "j2"}
\* The identifiers uuidv4() can hand out in the runs checked.
InitialIds == {"j1"}

VARIABLES
  now,        \* Date.now(), in hours
  fresh,      \* job identifiers uuidv4() has not handed out yet
  pc,         \* per job: where processUpload / processFiles stands
  stage,      \* per job: the stage of processFiles (1..10), 0 before it
  cnt,        \* per job: loop counter of the running stage operation
  nfiles,     \* per job: files.length of uploadAllFiles (set with the archive)
  hasIam,     \* per job: the archive holds an .iam file
  err,        \* per job: message of the error processFiles caught
  started,    \* per job: stages whose operation has been started
  ended,      \* per job: how each stage's operation ended
  resp,       \* per job: HTTP status processUpload answered with (0: none)
  t0,         \* per job: time of submission
  cleaned,    \* per job: cleanupPath(folderPath) has run
  zip,        \* per job: the uploaded archive multer stored under uploads/
  tasks,      \* per job: updateSession calls in flight
  latest,     \* per job: the latest-issued update whose write has ended
  escaped,    \* per job: errors that left the run without being recorded
  store,      \* per job: responses/session_<id>/session.json
  respDir,    \* per job: responses/session_<id> exists
  upDir,      \* per job: uploads/session_<id> exists
  releases,   \* per job: what each cleanupPath call on uploads/session_<id> found
  seen,       \* per job: the last answer of getStatus
  anim,       \* per job: the last answer of generateAnimation
  auth,       \* per job: the last answer of authenticate
  gemini,     \* what the generative service answers in this run
  sweep,      \* the retention sweeper's run
  nextSweep   \* time the sweeper's interval fires next

runVars == <<pc, stage, cnt, nfiles, hasIam, err, started, ended, resp, t0, cleaned, zip>>
updVars == <<tasks, latest, escaped>>
fsVars == <<store, respDir, upDir, releases>>
sweepVars == <<sweep, nextSweep>>
clientVars == <<seen, anim, auth, gemini>>
vars == <<now, fresh, runVars, updVars, fsVars, clientVars, sweepVars>>

\* ------------------------------------------------------ session record
\* createdAt is kept in two fields: the hour, and under createdAtCall what
\* tells the stamps of two calls made within the same hour apart: 0 for the
\* first updateSession call of the job, 1 for every later one.
FieldNames ==
  {"status", "message", "progress", "result", "error", "fileName", "createdAt",
   "createdAtCall"}

\* A field the JSON object does not have.
Absent(f) ==
  CASE f \in {"progress", "createdAt", "createdAtCall", "updatedAt"} -> -1
    [] f = "result" -> {}
    [] OTHER -> "none"

NoSession == [f \in FieldNames \cup {"updatedAt"} |-> Absent(f)]

\* let session = { createdAt: new Date().toISOString() }
DefaultSession(t) == [NoSession EXCEPT !["createdAt"] = t]

\* The default session of the call with issue order seq, made at hour t.
DefaultSessionOf(t, seq) ==
  [DefaultSession(t) EXCEPT !["createdAtCall"] = IF seq = 0 THEN 0 ELSE 1]

\* A merge that keeps only the update's fields (the existing record is dropped).
MergeReplacing(session, update, t) ==
  [f \in FieldNames \cup {"updatedAt"} |->
     IF f = "updatedAt" THEN t
     ELSE IF f \in DOMAIN update THEN update[f]
     ELSE IF f = "createdAt" THEN session[f] ELSE Absent(f)]

\* { ...session, ...update, updatedAt: new Date().toISOString() }
Merge(session, update, t) ==
  [f \in FieldNames \cup {"updatedAt"} |->
     IF f = "updatedAt" THEN t
     ELSE IF f \in DOMAIN update THEN update[f] ELSE session[f]]

NoFile == [st |-> "absent", mtime |-> 0, rec |-> NoSession]

\* ------------------------------------------------- the pipeline's table
StageMessage(s) ==
  CASE s = 1 -> "Getting access token"
    [] s = 2 -> "Creating bucket"
    [] s = 3 -> "Uploading files"
    [] s = 4 -> "Detecting assembly file"
    [] s = 5 -> "Linking references"
    [] s = 6 -> "Starting translation"
    [] s = 7 -> "Translating model (this may take several minutes)"
    [] s = 8 -> "Retrieving metadata"
    [] s = 9 -> "Extracting hierarchy"
    [] s = 10 -> "Retrieving properties"

\* A table whose last stage already announces 100.
StageProgressEndsAt100(s) == IF s = LastStage THEN 100 ELSE 10 * s

StageProgress(s) ==
  CASE s = 1 -> 5
    [] s = 2 -> 10
    [] s = 3 -> 20
    [] s = 4 -> 30
    [] s = 5 -> 40
    [] s = 6 -> 50
    [] s = 7 -> 60
    [] s = 8 -> 80
    [] s = 9 -> 85
    [] s = 10 -> 95

\* The update processFiles awaits before stage s.
StageUpdate(s) ==
  IF s = 1
  THEN [status |-> "processing", message |-> StageMessage(s), progress |-> StageProgress(s)]
  ELSE [message |-> StageMessage(s), progress |-> StageProgress(s)]

QueuedUpdate ==
  [status |-> "queued", message |-> "Processing queued", progress |-> 0,
   fileName |-> "model.zip"]

CompletedUpdate ==
  [status |-> "completed", message |-> "Processing completed successfully",
   progress |-> 100, result |-> {"accessToken", "encodedUrn", "bucketKey"}]

\* A catch block that records the failure without its error field.
FailedUpdateNoError(msg) ==
  [status |-> "failed", message |-> "Processing failed", progress |-> 0]

\* The update of processFiles' catch block.
FailedUpdate(msg) ==
  [status |-> "failed", message |-> msg, error |-> msg, progress |-> 0]

\* An update of the catch block that says nothing of the error.
StartFailedUpdateNoError(msg) ==
  [status |-> "failed", message |-> "Failed to start processing"]

\* The update of processUpload's catch block.
StartFailedUpdate(msg) ==
  [status |-> "failed", message |-> "Failed to start processing", error |-> msg]

UploadProgressUpdate(k, n) ==
  [message |-> "Uploaded " \o ToString(k) \o "/" \o ToString(n) \o " files",
   progress |-> 25]

TranslationProgressUpdate(status) ==
  [message |-> "Translation " \o status, progress |-> 65]

maxAttempts ==
  (TRANSLATION_TIMEOUT_MINUTES * 60 * 1000) \div TRANSLATION_CHECK_INTERVAL

\* ------------------------------------------------- updateSession calls
\* The calls `ups` (a sequence of <<kind, update, seq>>) made now on top of the
\* calls T already in flight.  Each runs up to its first await: the default
\* session is stamped, readFile is issued.  seq orders the calls of a job by
\* the time they are made.
Calls(T, ups) ==
  T \cup { [kind |-> ups[i][1], seq |-> ups[i][3], upd |-> ups[i][2],
            phase |-> "read", rec |-> DefaultSessionOf(now, ups[i][3])] :
       i \in 1..Len(ups) }

Call(j, T, ups) == tasks' = [tasks EXCEPT ![j] = Calls(T, ups)]

\* The order of the calls of one run: the update announcing stage s, then the
\* callbacks its operation calls, then the catch block's update.
AnnounceSeq(s) == 3 * s
CallbackSeq(j) == 3 * stage[j] + 1
CatchSeq(j) == 3 * stage[j] + 2

CallsPending(j) == {t \in tasks[j] : t.kind = "cb"}

\* Where the awaiting function goes on when its awaited update has been written.
ResumeSkippingCleanup(p) ==
  CASE p = "create" -> "staging"
    [] p = "announce" -> "op"
    [] p = "finish" -> "cleanup"
    [] p = "failing" -> "done"
    [] p = "upfail" -> "uperr"

Resume(p) ==
  CASE p = "create" -> "staging"
    [] p = "announce" -> "op"
    [] p \in {"finish", "failing"} -> "cleanup"
    [] p = "upfail" -> "uperr"

\* Where the awaiting function goes on when its awaited update has thrown.
Caught(p) ==
  CASE p = "create" -> "upfail"
    [] p \in {"announce", "finish"} -> "failing"
    [] p = "failing" -> "cleanup"
    [] p = "upfail" -> "uperr"

WriteError == "ENOENT: no such file or directory, open session.json"

\* A handler that removes the archive at the end of its try block only.
CleanupAfterLaunch(j, path) ==
  zip' = [zip EXCEPT ![j] = IF path = "launched" THEN "removed" ELSE "stored"]

\* finally { if (zipPath) { await FileUtils.cleanupPath(zipPath); } }
\* at the end of a processUpload that has set zipPath, whichever path it took.
Finally(j, path) == zip' = [zip EXCEPT ![j] = "removed"]

\* The awaited update t of job j has been written; T are the other calls.
MainDone(j, T) ==
  /\ pc' = [pc EXCEPT ![j] = Resume(@)]
  /\ cnt' = [cnt EXCEPT ![j] = 0]
  /\ started' = [started EXCEPT ![j] = IF pc[j] = "announce" THEN @ \cup {stage[j]} ELSE @]
  /\ resp' = [resp EXCEPT ![j] = IF pc[j] = "upfail" THEN 500 ELSE @]
  /\ tasks' = [tasks EXCEPT ![j] = T]
  /\ IF pc[j] = "upfail" THEN Finally(j, "failed") ELSE UNCHANGED zip
  /\ UNCHANGED <<stage, nfiles, hasIam, err, ended, t0, cleaned>>

\* The awaited update of job j has thrown; T are the other calls.
MainThrown(j, T) ==
  /\ pc' = [pc EXCEPT ![j] = Caught(@)]
  /\ err' = [err EXCEPT ![j] = IF pc[j] \in {"create", "announce", "finish"} THEN WriteError ELSE @]
  /\ resp' = [resp EXCEPT ![j] = IF pc[j] = "upfail" THEN 500 ELSE @]
  /\ Call(j, T, CASE pc[j] = "create" -> << <<"main", StartFailedUpdate(WriteError), 1>> >>
                  [] pc[j] \in {"announce", "finish"} ->
                       << <<"main", FailedUpdate(WriteError), CatchSeq(j)>> >>
                  [] OTHER -> << >>)
  /\ IF pc[j] = "upfail" THEN Finally(j, "failed") ELSE UNCHANGED zip
  /\ UNCHANGED <<stage, cnt, nfiles, hasIam, started, ended, t0, cleaned>>

\* An update that begins only when no update of any other job is under way.
UpdReadUnderGlobalLock(j, t) ==
  /\ t \in tasks[j] /\ t.phase = "read"
  /\ \A k \in JobIds \ {j} : \A u \in tasks[k] : u.phase = "read"
  /\ LET session == IF respDir[j] /\ store[j].st = "ok" THEN store[j].rec ELSE t.rec
     IN tasks' = [tasks EXCEPT ![j] =
                    (@ \ {t}) \cup {[t EXCEPT !.phase = "mkdir",
                                              !.rec = Merge(session, t.upd, now)]}]
  /\ UNCHANGED <<now, fresh, runVars, latest, escaped, fsVars, clientVars, sweepVars>>

\* const existingData = await fs.readFile(sessionPath, 'utf-8');
\* session = JSON.parse(existingData);  updatedSession = {...session, ...update}
UpdRead(j, t) ==
  /\ t \in tasks[j] /\ t.phase = "read"
  /\ LET session == IF respDir[j] /\ store[j].st = "ok" THEN store[j].rec ELSE t.rec
     IN tasks' = [tasks EXCEPT ![j] =
                    (@ \ {t}) \cup {[t EXCEPT !.phase = "mkdir",
                                              !.rec = Merge(session, t.upd, now)]}]
  /\ UNCHANGED <<now, fresh, runVars, latest, escaped, fsVars, clientVars, sweepVars>>

\* await fs.mkdir(sessionFolder, { recursive: true });
UpdMkdir(j, t) ==
  /\ t \in tasks[j] /\ t.phase = "mkdir"
  /\ respDir' = [respDir EXCEPT ![j] = TRUE]
  /\ tasks' = [tasks EXCEPT ![j] = (@ \ {t}) \cup {[t EXCEPT !.phase = "open"]}]
  /\ UNCHANGED <<now, fresh, runVars, latest, escaped, store, upDir, releases, clientVars, sweepVars>>

\* fs.writeFile opens session.json with O_TRUNC: the file is there and empty.
UpdOpen(j, t) ==
  /\ t \in tasks[j] /\ t.phase = "open"
  /\ respDir[j]
  /\ store' = [store EXCEPT ![j] = [st |-> "torn", mtime |-> now, rec |-> @.rec]]
  /\ tasks' = [tasks EXCEPT ![j] = (@ \ {t}) \cup {[t EXCEPT !.phase = "write"]}]
  /\ UNCHANGED <<now, fresh, runVars, latest, escaped, respDir, upDir, releases, clientVars, sweepVars>>

\* The promise of updateSession call t rejects.  An awaited call throws into
\* its caller; the catch block of processFiles has no handler of its own, so
\* an error thrown there leaves processFiles (processUpload's .catch logs it);
\* a progress callback's promise has no handler at all.
WriteFailed(j, t) ==
  /\ IF t.kind = "main"
     THEN MainThrown(j, tasks[j] \ {t})
     ELSE /\ tasks' = [tasks EXCEPT ![j] = @ \ {t}]
          /\ UNCHANGED runVars
  /\ escaped' = [escaped EXCEPT ![j] =
                   IF t.kind = "cb" THEN @ \cup {"callback"}
                   ELSE IF pc[j] = "failing" THEN @ \cup {"processFiles"}
                   ELSE @]
  /\ UNCHANGED <<now, fresh, latest, fsVars, clientVars, sweepVars>>

\* fs.writeFile finds the folder gone (ENOENT); updateSession rethrows.
UpdOpenFails(j, t) ==
  /\ t \in tasks[j] /\ t.phase = "open"
  /\ ~respDir[j]
  /\ WriteFailed(j, t)

\* fs.writeFile rejects although the folder is there (EIO, ENOSPC, EMFILE).
UpdWriteFails(j, t) ==
  /\ t \in tasks[j] /\ t.phase = "open"
  /\ respDir[j]
  /\ WriteFailed(j, t)

\* fs.writeFile has written JSON.stringify(updatedSession) and closed the file.
\* A file unlinked in between stays gone.
UpdWrite(j, t) ==
  /\ t \in tasks[j] /\ t.phase = "write"
  /\ store' = [store EXCEPT ![j] =
                 IF @.st = "absent" THEN @
                 ELSE [st |-> "ok", mtime |-> now, rec |-> t.rec]]
  /\ latest' = [latest EXCEPT ![j] =
                  IF t.seq >= @.seq THEN [seq |-> t.seq, upd |-> t.upd] ELSE @]
  /\ IF t.kind = "main"
     THEN MainDone(j, tasks[j] \ {t})
     ELSE /\ tasks' = [tasks EXCEPT ![j] = @ \ {t}]
          /\ UNCHANGED runVars
  /\ UNCHANGED <<now, fresh, escaped, respDir, upDir, releases, clientVars, sweepVars>>

\* ------------------------------------------------------- processUpload
\* The payloads that are turned away: no file in the request, a file that
\* upload.fileFilter refuses (neither zip MIME type nor .zip name; multer
\* passes the error on and processUpload is not called), a file AdmZip cannot
\* open, and an archive without entries.
Rejections ==
  {"MISSING_FILE", "Only ZIP files are allowed", "INVALID_ZIP", "ZIP file is empty"}

\* The rejections of a file that multer has stored (zipPath is set).
Unpacked == {"INVALID_ZIP", "ZIP file is empty"}

\* A rejection that is answered only after the session has been queued.
RejectAfterQueued(j) ==
  /\ j \in fresh
  /\ fresh' = fresh \ {j}
  /\ pc' = [pc EXCEPT ![j] = "rejected"]
  /\ resp' = [resp EXCEPT ![j] = 400]
  /\ err' = [err EXCEPT ![j] = "INVALID_ZIP"]
  /\ zip' = [zip EXCEPT ![j] = "removed"]
  /\ Call(j, tasks[j], << <<"cb", QueuedUpdate, 0>> >>)
  /\ UNCHANGED <<now, stage, cnt, nfiles, hasIam, started, ended, t0, cleaned,
                 latest, escaped, fsVars, clientVars, sweepVars>>

\* if (!req.file) -> 400 MISSING_FILE; new AdmZip(zipPath) throws or has no
\* entries -> 400 INVALID_ZIP; a fileFilter error is answered by the default
\* error handler (500).  err keeps what the answer says.
Reject(j) ==
  /\ j \in fresh
  /\ fresh' = fresh \ {j}
  /\ pc' = [pc EXCEPT ![j] = "rejected"]
  /\ \E why \in Rejections :
       /\ resp' = [resp EXCEPT ![j] = IF why = "Only ZIP files are allowed" THEN 500 ELSE 400]
       /\ err' = [err EXCEPT ![j] = why]
       /\ IF why \in Unpacked
          THEN Finally(j, "rejected")
          ELSE UNCHANGED zip
  /\ UNCHANGED <<now, stage, cnt, nfiles, hasIam, started, ended, t0, cleaned,
                 updVars, fsVars, clientVars, sweepVars>>

\* A submission that takes the identifier of a job that has ended (one
\* derived from the archive) when there is one.
SubmitReusingId(j) ==
  /\ j \in fresh \/ pc[j] = "done"
  /\ fresh' = fresh \ {j}
  /\ \E n \in 1..MaxFiles, iam \in BOOLEAN :
       /\ nfiles' = [nfiles EXCEPT ![j] = n]
       /\ hasIam' = [hasIam EXCEPT ![j] = iam]
  /\ pc' = [pc EXCEPT ![j] = "create"]
  /\ t0' = [t0 EXCEPT ![j] = now]
  /\ zip' = [zip EXCEPT ![j] = "stored"]
  /\ Call(j, tasks[j], << <<"main", QueuedUpdate, 0>> >>)
  /\ UNCHANGED <<now, stage, cnt, err, started, ended, resp, cleaned,
                 latest, escaped, fsVars, clientVars, sweepVars>>

\* sessionId = uuidv4(); await updateSession(sessionId, {status: 'queued', ...})
Submit(j) ==
  /\ j \in fresh
  /\ fresh' = fresh \ {j}
  /\ \E n \in 1..MaxFiles, iam \in BOOLEAN :
       /\ nfiles' = [nfiles EXCEPT ![j] = n]
       /\ hasIam' = [hasIam EXCEPT ![j] = iam]
  /\ pc' = [pc EXCEPT ![j] = "create"]
  /\ t0' = [t0 EXCEPT ![j] = now]
  /\ zip' = [zip EXCEPT ![j] = "stored"]
  /\ Call(j, tasks[j], << <<"main", QueuedUpdate, 0>> >>)
  /\ UNCHANGED <<now, stage, cnt, err, started, ended, resp, cleaned,
                 latest, escaped, fsVars, clientVars, sweepVars>>

\* The errors that end the staging: fs.mkdir(uploadPath) rejects, or
\* zip.extractAllTo throws when both directories are there.
MkdirError == "EACCES: permission denied, mkdir"

StagingFailures == {MkdirError, "Invalid or unsupported zip format"}

\* mkdir(uploadPath); mkdir(responsePath); zip.extractAllTo(uploadPath);
\* processFiles(...) runs up to its first await; res.json({sessionId}).
\* A mkdir that rejects or an extraction that throws goes to the catch block
\* instead.
Stage(j) ==
  /\ pc[j] = "staging"
  /\ \/ /\ upDir' = [upDir EXCEPT ![j] = TRUE]
        /\ respDir' = [respDir EXCEPT ![j] = TRUE]
        /\ pc' = [pc EXCEPT ![j] = "announce"]
        /\ stage' = [stage EXCEPT ![j] = 1]
        /\ resp' = [resp EXCEPT ![j] = 200]
        /\ Call(j, tasks[j], << <<"main", StageUpdate(1), AnnounceSeq(1)>> >>)
        /\ Finally(j, "launched")
        /\ UNCHANGED err
     \/ \E why \in StagingFailures :
          /\ upDir' = [upDir EXCEPT ![j] = why # MkdirError]
          /\ respDir' = [respDir EXCEPT ![j] = @ \/ why # MkdirError]
          /\ pc' = [pc EXCEPT ![j] = "upfail"]
          /\ err' = [err EXCEPT ![j] = why]
          /\ Call(j, tasks[j], << <<"main", StartFailedUpdate(why), 1>> >>)
          /\ UNCHANGED <<stage, resp, zip>>
  /\ UNCHANGED <<now, fresh, cnt, nfiles, hasIam, started, ended, t0, cleaned,
                 latest, escaped, store, releases, clientVars, sweepVars>>

\* -------------------------------------------------------- processFiles
\* The operation of the running stage returned (how: "ok", or "nodata" when a
\* retry loop ran out): the callbacks cbs were called on the way, and the run
\* awaits the next stage's update, or the completed update after the last stage.
Proceed(j, how, cbs) ==
  /\ ended' = [ended EXCEPT ![j][stage[j]] = how]
  /\ pc' = [pc EXCEPT ![j] = IF stage[j] = LastStage THEN "finish" ELSE "announce"]
  /\ stage' = [stage EXCEPT ![j] = @ + 1]
  /\ cnt' = [cnt EXCEPT ![j] = 0]
  /\ nfiles' = [nfiles EXCEPT ![j] = IF stage[j] = 3 THEN 0 ELSE @]
  /\ Call(j, tasks[j],
          cbs \o << <<"main", IF stage[j] = LastStage THEN CompletedUpdate
                              ELSE StageUpdate(stage[j] + 1),
                      AnnounceSeq(stage[j] + 1)>> >>)
  /\ UNCHANGED <<hasIam, err, started, resp, t0, cleaned, zip>>

\* The operation of the running stage threw: processFiles' catch block awaits
\* the failed update.
Throw(j, msg, cbs) ==
  /\ ended' = [ended EXCEPT ![j][stage[j]] = "error"]
  /\ pc' = [pc EXCEPT ![j] = "failing"]
  /\ err' = [err EXCEPT ![j] = msg]
  /\ nfiles' = [nfiles EXCEPT ![j] = IF stage[j] = 3 THEN 0 ELSE @]
  /\ Call(j, tasks[j], cbs \o << <<"main", FailedUpdate(msg), CatchSeq(j)>> >>)
  /\ UNCHANGED <<stage, cnt, hasIam, started, resp, t0, cleaned, zip>>

\* A loop round that is not awaited: the run goes on to the next stage while
\* the operation is still running.
AgainNotAwaited(j, cbs) ==
  /\ pc' = [pc EXCEPT ![j] = IF stage[j] = LastStage THEN "finish" ELSE "announce"]
  /\ stage' = [stage EXCEPT ![j] = @ + 1]
  /\ cnt' = [cnt EXCEPT ![j] = 0]
  /\ Call(j, tasks[j],
          cbs \o << <<"main", IF stage[j] = LastStage THEN CompletedUpdate
                              ELSE StageUpdate(stage[j] + 1),
                      AnnounceSeq(stage[j] + 1)>> >>)
  /\ UNCHANGED <<nfiles, hasIam, err, started, ended, resp, t0, cleaned, zip>>

\* The loop of the running stage goes round once more.
Again(j, cbs) ==
  /\ cnt' = [cnt EXCEPT ![j] = @ + 1]
  /\ Call(j, tasks[j], cbs)
  /\ UNCHANGED <<pc, stage, nfiles, hasIam, err, started, ended, resp, t0, cleaned, zip>>

Running(j, s) == pc[j] = "op" /\ stage[j] = s

\* A progress callback is called without await; at most MaxPending are in flight.
CanCall(j) == Cardinality(CallsPending(j)) < MaxPending

RestUnchanged == UNCHANGED <<now, fresh, latest, escaped, fsVars, clientVars, sweepVars>>

getAccessToken(j) ==
  /\ Running(j, 1)
  /\ \/ respDir[j] /\ Proceed(j, "ok", << >>)
     \/ Throw(j, "Access token error: invalid_client", << >>)
  /\ RestUnchanged

createBucket(j) ==
  /\ Running(j, 2)
  /\ \/ respDir[j] /\ Proceed(j, "ok", << >>)
     \/ Throw(j, "Bucket creation failed: Forbidden", << >>)
  /\ RestUnchanged

\* One round of the for loop of uploadAllFiles: uploadSingleFile, then
\* updateProgress(`Uploaded k/n files`), not awaited.
uploadAllFiles(j) ==
  /\ Running(j, 3)
  /\ cnt[j] < nfiles[j]
  /\ \/ /\ CanCall(j)
        /\ LET cb == << <<"cb", UploadProgressUpdate(cnt[j] + 1, nfiles[j]), CallbackSeq(j)>> >>
           IN IF cnt[j] + 1 = nfiles[j] THEN Proceed(j, "ok", cb) ELSE Again(j, cb)
     \/ Throw(j, "Request failed with status code 500", << >>)
  /\ RestUnchanged

detectAssemblyFile(j) ==
  /\ Running(j, 4)
  /\ IF hasIam[j] /\ upDir[j]
     THEN Proceed(j, "ok", << >>)
     ELSE Throw(j, "No assembly (.iam) file found", << >>)
  /\ RestUnchanged

linkReferences(j) ==
  /\ Running(j, 5)
  /\ \/ respDir[j] /\ Proceed(j, "ok", << >>)
     \/ Throw(j, "Link references failed: Bad Request", << >>)
  /\ RestUnchanged

startTranslationJob(j) ==
  /\ Running(j, 6)
  /\ \/ respDir[j] /\ Proceed(j, "ok", << >>)
     \/ Throw(j, "Translation job failed: Bad Request", << >>)
  /\ RestUnchanged

TimeoutMessage ==
  "Translation timeout after " \o ToString(TRANSLATION_TIMEOUT_MINUTES) \o " minutes"

\* A wait that is always followed by another attempt.
WaitAndRetryUnbounded(j, cbs) == Again(j, cbs)

\* A wait after which the attempt is made again without being counted.
WaitAndRetryUncounted(j, cbs) ==
  /\ Call(j, tasks[j], cbs)
  /\ UNCHANGED <<pc, stage, cnt, nfiles, hasIam, err, started, ended, resp, t0, cleaned, zip>>

\* A round of the translation loop that ends in a wait: the next attempt, or
\* the loop's end and its timeout error.
WaitAndRetry(j, cbs) ==
  IF cnt[j] + 1 < maxAttempts THEN Again(j, cbs) ELSE Throw(j, TimeoutMessage, cbs)

\* A terminal failure that is waited on like a job still in progress.
RemoteFailureRetried(j, status, cb) == WaitAndRetry(j, cb)

\* if (status === 'failed' || status === 'timeout') throw new Error(errorMsg);
\* the catch of the loop rethrows it (it has no response.status).
RemoteFailure(j, status, cb) == Throw(j, "Translation " \o status, cb)

\* A loop that takes a not-found answer for not-yet-ready on every attempt.
checkTranslationStatusAlwaysLenient(j) ==
  /\ Running(j, 7)
  /\ cnt[j] < maxAttempts
  /\ \/ /\ CanCall(j)
        /\ \E status \in {"success", "failed", "timeout", "inprogress"} :
             LET cb == << <<"cb", TranslationProgressUpdate(status), CallbackSeq(j)>> >>
             IN CASE status = "success" ->
                       IF respDir[j] THEN Proceed(j, "ok", cb) ELSE Throw(j, WriteError, cb)
                  [] status \in {"failed", "timeout"} -> RemoteFailure(j, status, cb)
                  [] OTHER -> WaitAndRetry(j, cb)
     \/ WaitAndRetry(j, << >>)
     \/ Throw(j, "Network Error", << >>)
  /\ RestUnchanged

\* One round of the for loop of checkTranslationStatus: the manifest request,
\* updateProgress(`Translation ${status} - ...`) not awaited, then return, throw
\* or wait.
checkTranslationStatus(j) ==
  /\ Running(j, 7)
  /\ cnt[j] < maxAttempts
  /\ \/ /\ CanCall(j)
        /\ \E status \in {"success", "failed", "timeout", "inprogress"} :
             LET cb == << <<"cb", TranslationProgressUpdate(status), CallbackSeq(j)>> >>
             IN CASE status = "success" ->
                       IF respDir[j] THEN Proceed(j, "ok", cb) ELSE Throw(j, WriteError, cb)
                  [] status \in {"failed", "timeout"} -> RemoteFailure(j, status, cb)
                  [] OTHER -> WaitAndRetry(j, cb)
     \/ IF cnt[j] < NotFoundGrace
        THEN WaitAndRetry(j, << >>)
        ELSE Throw(j, "Request failed with status code 404", << >>)
     \/ Throw(j, "Network Error", << >>)
  /\ RestUnchanged

getMetadata(j) ==
  /\ Running(j, 8)
  /\ \/ respDir[j] /\ Proceed(j, "ok", << >>)
     \/ Throw(j, "Metadata retrieval failed: No viewable files found", << >>)
  /\ RestUnchanged

\* A loop that gives up at the first request error.
DataLoopWithoutRetry(j, failure) ==
  \/ respDir[j] /\ Proceed(j, "ok", << >>)
  \/ IF cnt[j] + 1 < DataAttempts THEN Again(j, << >>) ELSE Proceed(j, "nodata", << >>)
  \/ Throw(j, failure, << >>)

\* One round of the retry loop shared by getObjectHierarchy and getProperties:
\* data ends the stage, no data waits and retries, an error retries unless the
\* attempt is the last; the loop running out returns undefined.
DataLoop(j, failure) ==
  \/ respDir[j] /\ Proceed(j, "ok", << >>)
  \/ IF cnt[j] + 1 < DataAttempts THEN Again(j, << >>) ELSE Proceed(j, "nodata", << >>)
  \/ IF cnt[j] + 1 < DataAttempts THEN Again(j, << >>) ELSE Throw(j, failure, << >>)

getObjectHierarchy(j) ==
  /\ Running(j, 9)
  /\ cnt[j] < DataAttempts
  /\ DataLoop(j, "Object hierarchy failed: Network Error")
  /\ RestUnchanged

getProperties(j) ==
  /\ Running(j, 10)
  /\ cnt[j] < DataAttempts
  /\ DataLoop(j, "Properties retrieval failed: Network Error")
  /\ RestUnchanged

\* The call of cleanupPath on uploads/session_<j> is noted with what it found.
Noted(j) == releases' = [releases EXCEPT ![j] = Append(@, upDir[j])]

\* await fs.rm(filePath, { recursive: true, force: true }) inside try/catch:
\* the path is gone afterwards, whether it was there or not.
Removed(j) == upDir' = [upDir EXCEPT ![j] = FALSE] /\ Noted(j)

\* finally { await FileUtils.cleanupPath(folderPath); }
cleanupPath(j) ==
  /\ pc[j] = "cleanup"
  /\ pc' = [pc EXCEPT ![j] = "done"]
  /\ cleaned' = [cleaned EXCEPT ![j] = TRUE]
  /\ Removed(j)
  /\ UNCHANGED <<now, fresh, stage, cnt, nfiles, hasIam, err, started, ended, resp, t0, zip,
                 updVars, store, respDir, clientVars, sweepVars>>

\* A cleanupPath that lets the error of fs.rm out of the finally block.
cleanupPathThrows(j) ==
  /\ pc[j] = "cleanup"
  /\ pc' = [pc EXCEPT ![j] = "done"]
  /\ cleaned' = [cleaned EXCEPT ![j] = TRUE]
  /\ escaped' = [escaped EXCEPT ![j] = @ \cup {"processFiles"}]
  /\ Noted(j)
  /\ UNCHANGED <<now, fresh, stage, cnt, nfiles, hasIam, err, started, ended, resp, t0, zip,
                 tasks, latest, store, respDir, upDir, clientVars, sweepVars>>

\* fs.rm rejects (EBUSY, EACCES): cleanupPath logs the error and returns.
cleanupPathFails(j) ==
  /\ pc[j] = "cleanup"
  /\ pc' = [pc EXCEPT ![j] = "done"]
  /\ cleaned' = [cleaned EXCEPT ![j] = TRUE]
  /\ Noted(j)
  /\ UNCHANGED <<now, fresh, stage, cnt, nfiles, hasIam, err, started, ended, resp, t0, zip,
                 updVars, store, respDir, upDir, clientVars, sweepVars>>

\* A release without force: a path that is not there is an error, which
\* leaves the call.
cleanupPathCallStrict(j) ==
  /\ pc[j] \in {"fresh", "cleanup", "done"}
  /\ Len(releases[j]) < MaxReleases
  /\ Removed(j)
  /\ escaped' = [escaped EXCEPT ![j] = IF upDir[j] THEN @ ELSE @ \cup {"cleanupPath"}]
  /\ UNCHANGED <<now, fresh, runVars, tasks, latest, store, respDir, clientVars, sweepVars>>

\* FileUtils.cleanupPath(uploads/session_<j>) called from outside the run of
\* j: on a path that never existed, just before the run's own call, or after it.
cleanupPathCall(j) ==
  /\ pc[j] \in {"fresh", "cleanup", "done"}
  /\ Len(releases[j]) < MaxReleases
  /\ Removed(j)
  /\ UNCHANGED <<now, fresh, runVars, updVars, store, respDir, clientVars, sweepVars>>

\* ----------------------------------------------------------- getStatus
\* SessionManager.getSession: the parsed record, or null when the file is
\* missing or does not parse.
getSession(j) ==
  IF respDir[j] /\ store[j].st = "ok" THEN store[j].rec ELSE NoSession

NoAnswer == [code |-> 0, status |-> "none", progress |-> -1, result |-> {}]

\* A handler that takes a missing record for a failure of the store.
AnswerStatusError(session) ==
  IF session = NoSession
  THEN [code |-> 500, status |-> "none", progress |-> -1, result |-> {}]
  ELSE [code |-> 200, status |-> session.status,
        progress |-> IF session.progress = -1 THEN 0 ELSE session.progress,
        result |-> session.result]

\* 404 SESSION_NOT_FOUND when getSession returned null, else the record's
\* fields; the catch (500 STATUS_ERROR) is entered by nothing getSession does.
Answer(session) ==
  IF session = NoSession
  THEN [code |-> 404, status |-> "none", progress |-> -1, result |-> {}]
  ELSE [code |-> 200, status |-> session.status,
        progress |-> IF session.progress = -1 THEN 0 ELSE session.progress,
        result |-> session.result]

getStatus(j) ==
  /\ seen' = [seen EXCEPT ![j] = Answer(getSession(j))]
  /\ seen'[j] # seen[j]
  /\ UNCHANGED <<now, fresh, runVars, updVars, fsVars, anim, auth, gemini, sweepVars>>

\* ------------------------------------------ generateAnimationWithGemini
\* Texts are sequences of characters.  Backquote stands for the character
\* U+0060, which cannot be written in a string here.
Backquote == "bq"

Fence == <<Backquote, Backquote, Backquote>>
JsonTag == <<"j", "s", "o", "n">>
Whitespace == {" ", "\n"}

RECURSIVE Repeat(_, _)
Repeat(s, n) == IF n = 0 THEN << >> ELSE s \o Repeat(s, n - 1)

RECURSIVE trimStart(_)
trimStart(s) ==
  IF s # << >> /\ Head(s) \in Whitespace THEN trimStart(Tail(s)) ELSE s

RECURSIVE trimEnd(_)
trimEnd(s) ==
  IF s # << >> /\ s[Len(s)] \in Whitespace
  THEN trimEnd(SubSeq(s, 1, Len(s) - 1)) ELSE s

trim(s) == trimEnd(trimStart(s))

startsWith(s, p) == Len(s) >= Len(p) /\ SubSeq(s, 1, Len(p)) = p

endsWith(s, p) == Len(s) >= Len(p) /\ SubSeq(s, Len(s) - Len(p) + 1, Len(s)) = p

\* s.replace(/^p/, "")
replaceStart(s, p) == IF startsWith(s, p) THEN SubSeq(s, Len(p) + 1, Len(s)) ELSE s

\* s.replace(/p$/, "")
replaceEnd(s, p) == IF endsWith(s, p) THEN SubSeq(s, 1, Len(s) - Len(p)) ELSE s

\* s.substring(0, n)
substring(s, n) == SubSeq(s, 1, IF Len(s) < n THEN Len(s) ELSE n)

\* if (text.startsWith(Fence + "json")) ... else if (text.startsWith(Fence)) ...
cleanCodeBlocks(text) ==
  IF startsWith(text, Fence \o JsonTag)
  THEN trim(replaceEnd(replaceStart(text, Fence \o JsonTag), Fence))
  ELSE IF startsWith(text, Fence)
  THEN trim(replaceEnd(replaceStart(text, Fence), Fence))
  ELSE text

NotWhitespace(c) == c \notin Whitespace

\* The number of elements of "{},{},...,{}", or -1 when s is not of that form.
RECURSIVE Elements(_)
Elements(s) ==
  IF s = <<"{", "}">> THEN 1
  ELSE IF Len(s) > 3 /\ SubSeq(s, 1, 3) = <<"{", "}", ",">>
  THEN LET n == Elements(SubSeq(s, 4, Len(s))) IN IF n = -1 THEN -1 ELSE n + 1
  ELSE -1

SyntaxError == [type |-> "SyntaxError", n |-> 0]

\* JSON.parse over the values the texts can spell: null, an object, an
\* array of objects.  Whitespace between the tokens is skipped.
JSONparse(text) ==
  LET s == SelectSeq(text, NotWhitespace)
  IN IF s = <<"n", "u", "l", "l">> THEN [type |-> "null", n |-> 0]
     ELSE IF s = <<"{", "}">> THEN [type |-> "object", n |-> 0]
     ELSE IF s = <<"[", "]">> THEN [type |-> "array", n |-> 0]
     ELSE IF /\ Len(s) >= 4 /\ Head(s) = "[" /\ s[Len(s)] = "]"
             /\ Elements(SubSeq(s, 2, Len(s) - 1)) # -1
     THEN [type |-> "array", n |-> Elements(SubSeq(s, 2, Len(s) - 1))]
     ELSE SyntaxError

\* What axios.post brings back: the text of the first candidate, or a throw.
NoReply == [ok |-> FALSE, text |-> << >>]

NoGeneration ==
  [calls |-> 0, reply |-> NoReply, kind |-> "none", value |-> SyntaxError,
   message |-> "none", carried |-> << >>]

\* A generation that asks the service once more when the answer does not parse.
generateAnimationWithGeminiRetrying(reply) ==
  LET text == cleanCodeBlocks(trim(reply.text))
  IN IF ~reply.ok
     THEN [calls |-> 1, reply |-> reply, kind |-> "error", value |-> SyntaxError,
           message |-> "Animation generation failed: timeout of 30000ms exceeded",
           carried |-> << >>]
     ELSE IF JSONparse(text) # SyntaxError
     THEN [calls |-> 1, reply |-> reply, kind |-> "value", value |-> JSONparse(text),
           message |-> "none", carried |-> << >>]
     ELSE [calls |-> 2, reply |-> reply, kind |-> "error", value |-> SyntaxError,
           message |-> "Animation generation failed: Invalid JSON from Gemini",
           carried |-> substring(text, DiagnosticLength)]

\* One axios.post; the text trimmed and cleaned; JSON.parse(text), or
\* Error("Invalid JSON from Gemini: " + text.substring(0, 100) + "..."), which the
\* outer catch wraps like the error of the request itself.
generateAnimationWithGemini(reply) ==
  LET text == cleanCodeBlocks(trim(reply.text))
  IN IF ~reply.ok
     THEN [calls |-> 1, reply |-> reply, kind |-> "error", value |-> SyntaxError,
           message |-> "Animation generation failed: timeout of 30000ms exceeded",
           carried |-> << >>]
     ELSE IF JSONparse(text) # SyntaxError
     THEN [calls |-> 1, reply |-> reply, kind |-> "value", value |-> JSONparse(text),
           message |-> "none", carried |-> << >>]
     ELSE [calls |-> 1, reply |-> reply, kind |-> "error", value |-> SyntaxError,
           message |-> "Animation generation failed: Invalid JSON from Gemini",
           carried |-> substring(text, DiagnosticLength)]

\* The texts the generative service can answer with: a body
\* (a command list, another JSON value, or something that does not parse),
\* bare or between fences, with or without a language tag and line breaks.
Command == <<"{", "}">>

CommandList(n) ==
  <<"[">> \o (IF n = 0 THEN << >> ELSE Command \o Repeat(<<",">> \o Command, n - 1))
          \o <<"]">>

LanguageTags == {JsonTag, <<"J", "S", "O", "N">>, <<"j", "s">>}

LineBreaks == {<< >>, <<"\n">>}

Fenced(tag, nl, body) == Fence \o tag \o nl \o body \o nl \o Fence

Overlong == <<"[">> \o Repeat(<<"{", ",">>, LongItems)

Bodies ==
  {CommandList(n) : n \in 0..MaxItems}
    \cup {<< >>, Command, <<"n", "u", "l", "l">>, <<"[", "{">>, <<"[", "{", "}">>, Overlong}

GeminiTexts ==
  {lead \o open \o body \o close \o trail :
     lead \in LineBreaks, trail \in LineBreaks, body \in Bodies,
     open \in {<< >>} \cup {Fence \o tag \o nl : tag \in LanguageTags \cup {<< >>},
                                                 nl \in LineBreaks},
     close \in {<< >>} \cup {nl \o Fence : nl \in LineBreaks}}

GeminiReplies == {NoReply} \cup {[ok |-> TRUE, text |-> t] : t \in GeminiTexts}

\* --------------------------------------------------- generateAnimation
NoAnimation == [code |-> 0, currentStatus |-> "none", gemini |-> FALSE, gen |-> NoGeneration]

\* 09_object_hierarchy.json and 10_properties_all_objects.json are in the
\* session directory: both stages got a response with data and saved it.
ArtifactsPresent(j) ==
  respDir[j] /\ ended[j][9] = "ok" /\ ended[j][10] = "ok"

\* The answer after the generation g: the commands, or 500 ANIMATION_ERROR.
Generated(g) ==
  [code |-> IF g.kind = "value" THEN 200 ELSE 500, currentStatus |-> "none",
   gemini |-> TRUE, gen |-> g]

\* A handler that goes on to the generation whatever the status is.
AnimationAnswersUnchecked(j) ==
  LET session == getSession(j)
  IN IF session = NoSession
     THEN {[NoAnimation EXCEPT !.code = 404]}
     ELSE {Generated(generateAnimationWithGemini(gemini))}

\* The answers generateAnimation can give in the present state: 404
\* SESSION_NOT_FOUND, 400 SESSION_NOT_READY with currentStatus, 500
\* ANIMATION_ERROR when an artifact cannot be read or the generation throws,
\* 200 with the commands.
AnimationAnswers(j) ==
  LET session == getSession(j)
  IN IF session = NoSession
     THEN {[NoAnimation EXCEPT !.code = 404]}
     ELSE IF session.status # "completed"
     THEN {[NoAnimation EXCEPT !.code = 400, !.currentStatus = session.status]}
     ELSE IF ~ArtifactsPresent(j)
     THEN {[NoAnimation EXCEPT !.code = 500]}
     ELSE {Generated(generateAnimationWithGemini(gemini))}

\* A handler that keeps the commands it has generated in the session record.
generateAnimationCaching(j) ==
  /\ \E a \in AnimationAnswers(j) : anim' = [anim EXCEPT ![j] = a]
  /\ anim'[j] # anim[j]
  /\ store' = [store EXCEPT ![j] =
                 IF anim'[j].code = 200 /\ @.st = "ok"
                 THEN [@ EXCEPT !.rec.result = @ \cup {"animationCommands"}]
                 ELSE @]
  /\ UNCHANGED <<now, fresh, runVars, updVars, respDir, upDir, releases, seen, auth, gemini, sweepVars>>

generateAnimation(j) ==
  /\ \E a \in AnimationAnswers(j) : anim' = [anim EXCEPT ![j] = a]
  /\ anim'[j] # anim[j]
  /\ UNCHANGED <<now, fresh, runVars, updVars, fsVars, seen, auth, gemini, sweepVars>>

\* -------------------------------------------------------- authenticate
NoToken == [code |-> 0, scope |-> {}, from |-> "none"]

\* The default scopes of getAccessToken, which the pipeline's token carries.
PipelineScopes == {"data:write", "data:read", "bucket:create", "bucket:delete"}

\* A handler that hands out the token the pipeline stored, at any age.
TokenAnswersFromRecord(j) ==
  LET session == getSession(j)
  IN IF session = NoSession
     THEN {[code |-> 404, scope |-> {}, from |-> "none"]}
     ELSE {[code |-> 200, scope |-> PipelineScopes, from |-> "session.result"]}

\* The answers authenticate can give in the present state: 404
\* SESSION_NOT_FOUND, 403 SESSION_EXPIRED when createdAt is more than
\* SESSION_CLEANUP_HOURS ago, else the token of
\* forgeClient.getAccessToken(null, ['data:read']) or 500 AUTH_ERROR.
TokenAnswers(j) ==
  LET session == getSession(j)
  IN IF session = NoSession
     THEN {[code |-> 404, scope |-> {}, from |-> "none"]}
     ELSE IF now - session.createdAt > SESSION_CLEANUP_HOURS
     THEN {[code |-> 403, scope |-> {}, from |-> "none"]}
     ELSE {[code |-> 200, scope |-> {"data:read"}, from |-> "token request"],
           [code |-> 500, scope |-> {}, from |-> "token request"]}

authenticate(j) ==
  /\ \E a \in TokenAnswers(j) : auth' = [auth EXCEPT ![j] = a]
  /\ auth'[j] # auth[j]
  /\ UNCHANGED <<now, fresh, runVars, updVars, fsVars, seen, anim, gemini, sweepVars>>

\* -------------------------------------------------- cleanupOldSessions
\* A comparison that also expires a file written exactly at the cutoff.
ExpiredOrEqual(file, cutoff) == file.st = "absent" \/ file.mtime <= cutoff

\* stats.mtime.getTime() < cutoffTime, or fs.stat throws
Expired(file, cutoff) == file.st = "absent" \/ file.mtime < cutoff

\* readdir('responses'); cutoffTime = Date.now() - SESSION_CLEANUP_HOURS hours
cleanupStart ==
  /\ sweep.phase = "idle"
  /\ now >= nextSweep
  /\ sweep' = [phase |-> "scan", entries |-> {j \in JobIds : respDir[j]},
               cutoff |-> now - SESSION_CLEANUP_HOURS, cur |-> "none", stat |-> NoFile]
  /\ nextSweep' = nextSweep + SESSION_CLEANUP_HOURS
  /\ UNCHANGED <<now, fresh, runVars, updVars, fsVars, clientVars>>

\* const stats = await fs.stat(sessionFile)
cleanupStat(j) ==
  /\ sweep.phase = "scan"
  /\ j \in sweep.entries
  /\ LET file == IF respDir[j] THEN store[j] ELSE NoFile
     IN sweep' = IF Expired(file, sweep.cutoff)
                 THEN [sweep EXCEPT !.phase = "rm", !.cur = j, !.stat = file]
                 ELSE [sweep EXCEPT !.entries = @ \ {j}]
  /\ UNCHANGED <<now, fresh, runVars, updVars, fsVars, clientVars, nextSweep>>

\* await fs.rm(sessionPath, { recursive: true, force: true })
cleanupRm ==
  /\ sweep.phase = "rm"
  /\ store' = [store EXCEPT ![sweep.cur] = NoFile]
  /\ respDir' = [respDir EXCEPT ![sweep.cur] = FALSE]
  /\ sweep' = [sweep EXCEPT !.phase = "scan", !.entries = @ \ {sweep.cur}]
  /\ UNCHANGED <<now, fresh, runVars, updVars, upDir, releases, clientVars, nextSweep>>

cleanupEnd ==
  /\ sweep.phase = "scan"
  /\ sweep.entries = {}
  /\ sweep' = [sweep EXCEPT !.phase = "idle", !.cur = "none", !.stat = NoFile]
  /\ UNCHANGED <<now, fresh, runVars, updVars, fsVars, clientVars, nextSweep>>

\* ---------------------------------------------------------------- time
\* A submission or a run with calls still in flight.
Active(j) == pc[j] \notin {"fresh", "rejected", "done", "uperr"} \/ tasks[j] # {}

\* The clock advances.  A job's submission, run and callbacks together last
\* less than the retention window (every remote call has a timeout and the
\* translation wait is bounded by TRANSLATION_TIMEOUT_MINUTES).
Tick ==
  /\ now + TickHours <= MaxTicks * TickHours
  /\ \A j \in JobIds : Active(j) => now + TickHours - t0[j] < SESSION_CLEANUP_HOURS
  /\ now' = now + TickHours
  /\ UNCHANGED <<fresh, runVars, updVars, fsVars, clientVars, sweepVars>>

\* ---------------------------------------------------------------- Init
\* The server starts with empty uploads/ and responses/ directories; ids are
\* the identifiers uuidv4() hands out in the run.
ServerStart(ids) ==
  /\ now = 0
  /\ fresh = ids
  /\ pc = [j \in JobIds |-> "fresh"]
  /\ stage = [j \in JobIds |-> 0]
  /\ cnt = [j \in JobIds |-> 0]
  /\ nfiles = [j \in JobIds |-> 0]
  /\ hasIam = [j \in JobIds |-> FALSE]
  /\ err = [j \in JobIds |-> "none"]
  /\ started = [j \in JobIds |-> {}]
  /\ ended = [j \in JobIds |-> [s \in 1..LastStage |-> "none"]]
  /\ resp = [j \in JobIds |-> 0]
  /\ t0 = [j \in JobIds |-> 0]
  /\ cleaned = [j \in JobIds |-> FALSE]
  /\ zip = [j \in JobIds |-> "none"]
  /\ tasks = [j \in JobIds |-> {}]
  /\ latest = [j \in JobIds |-> [seq |-> 0, upd |-> <<>>]]
  /\ escaped = [j \in JobIds |-> {}]
  /\ store = [j \in JobIds |-> NoFile]
  /\ respDir = [j \in JobIds |-> FALSE]
  /\ upDir = [j \in JobIds |-> FALSE]
  /\ releases = [j \in JobIds |-> << >>]
  /\ seen = [j \in JobIds |-> NoAnswer]
  /\ anim = [j \in JobIds |-> NoAnimation]
  /\ auth = [j \in JobIds |-> NoToken]
  /\ sweep = [phase |-> "idle", entries |-> {}, cutoff |-> 0, cur |-> "none", stat |-> NoFile]
  /\ nextSweep = SESSION_CLEANUP_HOURS

Boot == ServerStart(InitialIds)

\* A responses/ directory that holds the session of a job an earlier process
\* completed at time 0 (the records outlive the process).
FixtureIds == JobIds \ InitialIds

FixtureSession ==
  Merge(Merge(DefaultSessionOf(0, 0), QueuedUpdate, 0), CompletedUpdate, 0)

BootWithFixture ==
  /\ now = 0
  /\ fresh = InitialIds
  /\ pc = [j \in JobIds |-> IF j \in FixtureIds THEN "done" ELSE "fresh"]
  /\ stage = [j \in JobIds |-> IF j \in FixtureIds THEN LastStage + 1 ELSE 0]
  /\ cnt = [j \in JobIds |-> 0]
  /\ nfiles = [j \in JobIds |-> 0]
  /\ hasIam = [j \in JobIds |-> FALSE]
  /\ err = [j \in JobIds |-> "none"]
  /\ started = [j \in JobIds |-> IF j \in FixtureIds THEN 1..LastStage ELSE {}]
  /\ ended = [j \in JobIds |-> [s \in 1..LastStage |-> IF j \in FixtureIds THEN "ok" ELSE "none"]]
  /\ resp = [j \in JobIds |-> IF j \in FixtureIds THEN 200 ELSE 0]
  /\ t0 = [j \in JobIds |-> 0]
  /\ cleaned = [j \in JobIds |-> j \in FixtureIds]
  /\ zip = [j \in JobIds |-> IF j \in FixtureIds THEN "removed" ELSE "none"]
  /\ tasks = [j \in JobIds |-> {}]
  /\ latest = [j \in JobIds |-> [seq |-> 0, upd |-> <<>>]]
  /\ escaped = [j \in JobIds |-> {}]
  /\ store = [j \in JobIds |-> IF j \in FixtureIds
                                THEN [st |-> "ok", mtime |-> 0, rec |-> FixtureSession]
                                ELSE NoFile]
  /\ respDir = [j \in JobIds |-> j \in FixtureIds]
  /\ upDir = [j \in JobIds |-> FALSE]
  /\ releases = [j \in JobIds |-> IF j \in FixtureIds THEN <<TRUE>> ELSE << >>]
  /\ seen = [j \in JobIds |-> NoAnswer]
  /\ anim = [j \in JobIds |-> NoAnimation]
  /\ auth = [j \in JobIds |-> NoToken]
  /\ sweep = [phase |-> "idle", entries |-> {}, cutoff |-> 0, cur |-> "none", stat |-> NoFile]
  /\ nextSweep = SESSION_CLEANUP_HOURS

\* The generative service is not reached in the runs without animation
\* requests; with them it gives one of its answers.
Init == Boot /\ gemini = NoReply

InitSweep == BootWithFixture /\ gemini = NoReply

\* A command list between fences, a text that does not parse, a failed call.
SampleReplies ==
  {NoReply,
   [ok |-> TRUE, text |-> Fenced(JsonTag, <<"\n">>, CommandList(MaxItems))],
   [ok |-> TRUE, text |-> <<"[", "{">>]}

InitAnim == Boot /\ gemini \in SampleReplies

\* Two submissions in one run of the server.
InitPair == ServerStart(JobIds) /\ gemini = NoReply

InitGen == BootWithFixture /\ gemini \in GeminiReplies

\* ---------------------------------------------------------------- Next
\* The step of updateSession call t of job j that comes next.
UpdStep(j, t) ==
  UpdRead(j, t) \/ UpdMkdir(j, t) \/ UpdOpen(j, t) \/ UpdOpenFails(j, t) \/ UpdWrite(j, t)

\* processUpload, processFiles and the updateSession calls they make.
Pipeline ==
  \/ \E j \in JobIds : Reject(j) \/ Submit(j) \/ Stage(j)
  \/ \E j \in JobIds : \E t \in tasks[j] :
       UpdRead(j, t) \/ UpdMkdir(j, t) \/ UpdOpen(j, t) \/ UpdOpenFails(j, t) \/ UpdWrite(j, t)
  \/ \E j \in JobIds :
       \/ getAccessToken(j) \/ createBucket(j) \/ uploadAllFiles(j)
       \/ detectAssemblyFile(j) \/ linkReferences(j) \/ startTranslationJob(j)
       \/ checkTranslationStatus(j) \/ getMetadata(j)
       \/ getObjectHierarchy(j) \/ getProperties(j) \/ cleanupPath(j)

\* The setInterval of cleanupOldSessions, and the clock.
Sweeper ==
  \/ cleanupStart
  \/ \E j \in JobIds : cleanupStat(j)
  \/ cleanupRm
  \/ cleanupEnd
  \/ Tick

Next ==
  \/ Pipeline
  \/ \E j \in JobIds : getStatus(j)

NextSweep ==
  \/ Pipeline
  \/ Sweeper

\* The pipeline with a file system whose writes and removals can fail.
NextIO ==
  \/ Pipeline
  \/ \E j \in JobIds : \E t \in tasks[j] : UpdWriteFails(j, t)
  \/ \E j \in JobIds : cleanupPathFails(j)

\* The pipeline and animation requests.
NextAnim ==
  \/ Pipeline
  \/ \E j \in JobIds : generateAnimation(j)

\* The pipeline, the clock and token requests.
NextAuth ==
  \/ Pipeline
  \/ Tick
  \/ \E j \in JobIds : authenticate(j)

\* Two submissions and the beginning of their runs: the remote service
\* answers the token requests and nothing after them.
NextPair ==
  \/ \E j \in JobIds : Submit(j) \/ Stage(j)
  \/ \E j \in JobIds : \E t \in tasks[j] : UpdStep(j, t)
  \/ \E j \in JobIds : getAccessToken(j) \/ cleanupPath(j)

\* The pipeline, and cleanupPath called on the staged directories from
\* outside the runs.
NextRelease ==
  \/ Pipeline
  \/ \E j \in JobIds : cleanupPathCall(j)

\* Animation requests over the sessions an earlier process left behind.
NextGen == \E j \in JobIds : generateAnimation(j)

\* The steps of the submission and the run of job j, and the steps of the
\* updateSession calls it awaits and of those its callbacks made.
RunStep(j) ==
  \/ Stage(j)
  \/ getAccessToken(j) \/ createBucket(j) \/ uploadAllFiles(j)
  \/ detectAssemblyFile(j) \/ linkReferences(j) \/ startTranslationJob(j)
  \/ checkTranslationStatus(j) \/ getMetadata(j)
  \/ getObjectHierarchy(j) \/ getProperties(j) \/ cleanupPath(j)

AwaitedStep(j) == \E t \in tasks[j] : t.kind = "main" /\ UpdStep(j, t)

CallbackStep(j) == \E t \in tasks[j] : t.kind = "cb" /\ UpdStep(j, t)

\* The event loop runs every continuation that is ready: a remote call that
\* has returned, a timer that has fired, an fs call that has ended.  Which
\* answer a remote call brings is not subject to fairness.
EventLoop ==
  \A j \in JobIds :
    WF_vars(RunStep(j)) /\ WF_vars(AwaitedStep(j)) /\ WF_vars(CallbackStep(j))

Spec == Init /\ [][Next]_vars

\* The pipeline alone, every session write succeeding, under the event loop.
SpecLive == Init /\ [][Pipeline]_vars /\ EventLoop

\* A submission beside the session of a job that an earlier submission of the
\* same archive completed.
SpecAgain == InitSweep /\ [][NextIO]_vars

SpecAnim == InitAnim /\ [][NextAnim]_vars

SpecAuth == InitSweep /\ [][NextAuth]_vars

SpecGen == InitGen /\ [][NextGen]_vars

SpecIO == Init /\ [][NextIO]_vars

SpecPair == InitPair /\ [][NextPair]_vars

SpecRelease == Init /\ [][NextRelease]_vars

SpecSweep == InitSweep /\ [][NextSweep]_vars

\* ---------------------------------------------------------------- claims
Terminal == {"completed", "failed"}

\* processFiles of job j has caught the error of a stage operation.
StageFailed(j) == \E s \in 1..LastStage : ended[j][s] = "error"

\* The submission or the run of job j has not ended.
InFlight(j) == pc[j] \notin {"fresh", "rejected", "done", "uperr"}

\* C1: while a job is not terminal, the progress that successive status
\* queries observe never decreases, the progress callbacks included.
C1_ProgressNeverDecreases ==
  [][\A j \in JobIds :
       (/\ seen[j].code = 200 /\ seen'[j].code = 200
        /\ seen[j].status \notin Terminal /\ seen'[j].status \notin Terminal)
       => seen'[j].progress >= seen[j].progress]_vars

\* C2: a record whose status is completed has progress 100 and a result;
\* a record whose status is failed has an error.
C2_TerminalRecordComplete ==
  \A j \in JobIds :
    store[j].st = "ok" =>
      /\ store[j].rec.status = "completed" =>
           store[j].rec.progress = 100 /\ store[j].rec.result # Absent("result")
      /\ store[j].rec.status = "failed" => store[j].rec.error # Absent("error")

StatusStep ==
  {<<"none", "queued">>, <<"queued", "processing">>, <<"queued", "failed">>,
   <<"processing", "completed">>, <<"processing", "failed">>}

\* C3: the status of a record moves only along queued -> processing ->
\* completed or failed, and no later write changes a terminal status.
C3_StatusPath ==
  [][\A j \in JobIds :
       store'[j].st # "absent" =>
         \/ store'[j].rec.status = store[j].rec.status
         \/ <<store[j].rec.status, store'[j].rec.status>> \in StatusStep]_vars

\* C4: the updates of one job are serialized: the record on disk carries the
\* fields of the update issued last among those that have finished.
C4_LastIssuedWins ==
  \A j \in JobIds :
    store[j].st = "ok" =>
      \A f \in DOMAIN latest[j].upd : store[j].rec[f] = latest[j].upd[f]

\* C5: the write that ends an update leaves every field of the record on
\* disk that the update does not name as it was.
C5_MergeKeepsFields ==
  [][\A j \in JobIds : \A t \in tasks[j] :
       (t.phase = "write" /\ t \notin tasks'[j] /\ store'[j].st = "ok") =>
         \A f \in FieldNames \ (DOMAIN t.upd \cup {"updatedAt"}) :
           store[j].rec[f] # Absent(f) => store'[j].rec[f] = store[j].rec[f]]_vars

C10_NeverRemovesRunningJob ==
  [][\A j \in JobIds : (respDir[j] /\ ~respDir'[j]) => ~InFlight(j)]_vars

\* C11: a submission that is rejected (no file, not an archive, an empty
\* archive) leaves no session record and no per-job directory and starts no
\* pipeline run.
C11_RejectionLeavesNothing ==
  \A j \in JobIds :
    pc[j] = "rejected" =>
      /\ err[j] \in Rejections /\ resp[j] \in {400, 500}
      /\ store[j] = NoFile /\ ~respDir[j] /\ ~upDir[j]
      /\ tasks[j] = {} /\ stage[j] = 0 /\ started[j] = {}

C11_Witness ==
  \E j \in JobIds : pc[j] = "rejected" /\ err[j] = "ZIP file is empty" /\ resp[j] = 400

\* C12: getSession returns absent only when no record exists; a record that
\* is there but cannot be read makes it fail instead.
C12_AbsentOnlyWhenNoRecord ==
  \A j \in JobIds :
    getSession(j) = NoSession => (~respDir[j] \/ store[j].st = "absent")

\* C13: a status query for an identifier no submission has issued is
\* answered 404, never 500.
C13_NeverIssuedIsNotFound ==
  \A j \in JobIds :
    (pc[j] = "fresh" /\ seen[j] # NoAnswer) => seen[j].code = 404

C13_Witness ==
  \E j \in JobIds \ InitialIds : pc[j] = "fresh" /\ seen[j].code = 404

\* C14: no failure raised during the pipeline run leaves it unrecorded: none
\* is propagated out of processFiles and none is left as the unhandled
\* rejection of a progress callback's session write.
C14_NoErrorEscapes ==
  \A j \in JobIds : escaped[j] = {}

\* C15: a cleanupPath whose removal fails changes nothing else: the directory
\* stays, the session record, the caught error and the errors that have left
\* the run are as before, no update is issued, and processFiles returns.
C15_CleanupFailureNotEscalated ==
  [][\A j \in JobIds :
       (pc[j] = "cleanup" /\ pc'[j] # "cleanup" /\ upDir'[j]) =>
         /\ pc'[j] = "done" /\ cleaned'[j]
         /\ store'[j] = store[j] /\ err'[j] = err[j]
         /\ tasks'[j] = tasks[j] /\ escaped'[j] = escaped[j]]_vars

C15_Witness ==
  \E j \in JobIds :
    /\ pc[j] = "done" /\ cleaned[j] /\ upDir[j] /\ escaped[j] = {}
    /\ StageFailed(j) /\ store[j].st = "ok" /\ store[j].rec.status = "failed"
    /\ store[j].rec.error = err[j]

RemoteFailureUpdates ==
  {TranslationProgressUpdate("failed"), TranslationProgressUpdate("timeout")}

\* C16: in the round of checkTranslationStatus in which the remote side
\* reports failed or timeout the stage fails at once, with no further wait,
\* and once the stage has failed no status request is issued any more.
C16_RemoteFailureIsImmediate ==
  /\ [][\A j \in JobIds :
          (/\ Running(j, 7)
           /\ \E t \in tasks'[j] \ tasks[j] :
                t.kind = "cb" /\ t.upd \in RemoteFailureUpdates)
          => /\ pc'[j] = "failing" /\ ended'[j][7] = "error"
             /\ cnt'[j] = cnt[j]
             /\ err'[j] \in {"Translation failed", "Translation timeout"}]_vars
  /\ [](\A j \in JobIds : ended[j][7] = "error" => ~Running(j, 7))

C16_Witness ==
  \E j \in JobIds :
    /\ pc[j] = "done" /\ ended[j][7] = "error" /\ err[j] = "Translation failed"
    /\ store[j].st = "ok" /\ store[j].rec.error = "Translation failed"

C18_FullProgressOnlyCompleted ==
  \A j \in JobIds :
    /\ (store[j].st = "ok" /\ store[j].rec.progress = 100)
         => store[j].rec.status = "completed"
    /\ \A t \in tasks[j] : t.rec.progress = 100 => t.rec.status = "completed"

C18_Witness ==
  \E j \in JobIds :
    /\ store[j].st = "ok" /\ store[j].rec.progress = 100
    /\ store[j].rec.status = "completed" /\ pc[j] = "done"

\* session.json of job j is on disk, whole or not.
RecordExists(j) == respDir[j] /\ store[j].st # "absent"

\* session.json of job j is on disk and whole.
RecordReadable(j) == respDir[j] /\ store[j].st = "ok"

C20_TokenIssuance ==
  [][\A j \in JobIds :
       auth'[j] # auth[j] =>
         /\ ~RecordExists(j) => auth'[j].code = 404
         /\ (RecordReadable(j) /\ now - store[j].rec.createdAt > SESSION_CLEANUP_HOURS)
              => auth'[j].code = 403
         /\ auth'[j].code \in {404, 403} => auth'[j].from = "none"
         /\ auth'[j].from # "none" =>
              /\ RecordReadable(j)
              /\ now - store[j].rec.createdAt <= SESSION_CLEANUP_HOURS
              /\ auth'[j].from = "token request"
         /\ auth'[j].code = 200 =>
              /\ auth'[j].from = "token request"
              /\ auth'[j].scope = {"data:read"}]_vars

C20_Witness ==
  \E j \in InitialIds :
    /\ auth[j].code = 200 /\ auth[j].scope = {"data:read"}
    /\ RecordReadable(j) /\ store[j].rec.status = "completed"
    /\ "accessToken" \in store[j].rec.result

\* What is left of the text when an opening fence marker, with or without a
\* language tag, and a closing fence marker are taken away parses.
StructurallyValid(text) ==
  \E open \in {<< >>} \cup {Fence \o tag : tag \in LanguageTags \cup {<< >>}},
     close \in {<< >>, Fence} :
    /\ startsWith(trim(text), open)
    /\ endsWith(replaceStart(trim(text), open), close)
    /\ JSONparse(replaceEnd(replaceStart(trim(text), open), close)) # SyntaxError

IsPartOf(part, text) ==
  \E i \in 1..(Len(text) + 1) :
    /\ i + Len(part) - 1 <= Len(text)
    /\ SubSeq(text, i, i + Len(part) - 1) = part

\* C21: a generated text that is a valid command list between fences, with
\* or without a language tag, is answered with exactly that list; a text that
\* is not structurally valid is answered with the malformed-generation error,
\* which carries the beginning of the text (all of it up to the diagnostic
\* length when the text has no fence), and nothing is returned for it.
C21_SanitizerContract ==
  \A j \in JobIds :
    LET g == anim[j].gen
        text == g.reply.text
    IN (g.calls > 0 /\ g.reply.ok) =>
         /\ \A tag \in LanguageTags \cup {<< >>}, nl \in LineBreaks, n \in 0..MaxItems :
              text = Fenced(tag, nl, CommandList(n)) =>
                g.kind = "value" /\ g.value = [type |-> "array", n |-> n]
         /\ ~StructurallyValid(text) =>
              /\ g.kind = "error" /\ g.value = SyntaxError
              /\ g.message = "Animation generation failed: Invalid JSON from Gemini"
              /\ Len(g.carried) <= DiagnosticLength
              /\ IsPartOf(g.carried, text)
              /\ ~startsWith(trim(text), Fence) =>
                   g.carried = substring(trim(text), DiagnosticLength)

\* C26: an animation request calls the generative service at most once; a
\* malformed answer or a failed call ends the request with the error answer
\* after that one call.
C26_SingleGenerationCall ==
  \A j \in JobIds :
    /\ anim[j].gen.calls <= 1
    /\ anim[j].gemini <=> anim[j].gen.calls = 1
    /\ anim[j].gen.kind = "error" => anim[j].code = 500 /\ anim[j].gen.calls = 1

C26_Witness ==
  \E j \in JobIds :
    /\ anim[j].code = 500 /\ anim[j].gen.calls = 1 /\ anim[j].gen.reply.ok
    /\ anim[j].gen.message = "Animation generation failed: Invalid JSON from Gemini"
    /\ Len(anim[j].gen.carried) = DiagnosticLength

\* C27: an animation request, whatever it answers, leaves the session
\* record, the session directory and its artifacts, the staged directory and
\* the updates in flight as they were.
C27_AnimationChangesNothing ==
  [][\A j \in JobIds :
       anim'[j] # anim[j] =>
         /\ store' = store /\ respDir' = respDir /\ upDir' = upDir
         /\ tasks' = tasks /\ latest' = latest /\ ended' = ended]_vars

C27_Witness ==
  \E j \in JobIds :
    /\ anim[j].code = 200 /\ anim[j].gen.value = [type |-> "array", n |-> MaxItems]
    /\ store[j].st = "ok" /\ store[j].rec.status = "completed"
    /\ store[j].rec.result = CompletedUpdate.result

\* The submission and the run of job j have ended and no update is in flight.
Ended(j) == pc[j] \in {"done", "uperr", "rejected"} /\ tasks[j] = {}

\* C22: an identifier is handed out once; the submission that gets it finds
\* no record and no directory under it and creates its own; the run of an
\* identifier is launched once, from its own submission; and no step changes
\* the record, the directories or the run of a job that has ended, whatever
\* is submitted afterwards.
C22_OneRunPerSubmission ==
  /\ [](\A j \in JobIds : pc[j] # "fresh" => j \notin fresh)
  /\ [][\A j \in JobIds :
          /\ j \notin fresh => j \notin fresh'
          /\ (pc[j] = "fresh" /\ pc'[j] # "fresh") =>
               /\ j \in fresh /\ store[j] = NoFile
               /\ ~respDir[j] /\ ~upDir[j] /\ tasks[j] = {}
          /\ stage'[j] >= stage[j]
          /\ (stage[j] = 0 /\ stage'[j] = 1) => pc[j] = "staging"
          /\ Ended(j) =>
               /\ store'[j] = store[j] /\ respDir'[j] = respDir[j]
               /\ upDir'[j] = upDir[j] /\ tasks'[j] = tasks[j]
               /\ pc'[j] = pc[j] /\ stage'[j] = stage[j]]_vars

C22_Witness ==
  \E j \in InitialIds, k \in FixtureIds :
    /\ pc[j] = "done" /\ store[j].st = "ok" /\ store[j].rec.status = "completed"
    /\ store[j].rec.fileName = store[k].rec.fileName
    /\ store[k] = [st |-> "ok", mtime |-> 0, rec |-> FixtureSession]
    /\ respDir[j] /\ respDir[k]

NoAssembly == "No assembly (.iam) file found"

\* C23: the run of an archive without an .iam file whose upload succeeded
\* fails at the detection stage with the no-assembly message, starts neither
\* the linking nor any later stage, and when it has ended the session is
\* failed with that message and the staged directory is gone.
C23_NoAssemblyFails ==
  \A j \in JobIds :
    (~hasIam[j] /\ ended[j][3] = "ok" /\ ended[j][4] # "none") =>
      /\ ended[j][4] = "error" /\ err[j] = NoAssembly
      /\ started[j] = 1..4
      /\ Ended(j) =>
           /\ ~upDir[j]
           /\ store[j].st = "ok" /\ store[j].rec.status = "failed"
           /\ store[j].rec.error = NoAssembly /\ store[j].rec.message = NoAssembly

\* C24: a step of an update of one job leaves the record, the directories
\* and the updates of every other job as they were, and an update in flight
\* can always take its next step, whatever the updates of other jobs are
\* doing.
C24_JobsIndependent ==
  /\ [][\A j \in JobIds :
          tasks'[j] # tasks[j] =>
            \A k \in JobIds \ {j} :
              /\ store'[k] = store[k] /\ respDir'[k] = respDir[k]
              /\ upDir'[k] = upDir[k] /\ tasks'[k] = tasks[k]
              /\ latest'[k] = latest[k] /\ pc'[k] = pc[k]]_vars
  /\ [](\A j \in JobIds : \A t \in tasks[j] : ENABLED UpdStep(j, t))

C24_Witness ==
  \E j, k \in JobIds :
    /\ j # k
    /\ \E t \in tasks[j] : t.phase = "write" /\ t.upd = StageUpdate(1)
    /\ \E u \in tasks[k] : u.phase = "write" /\ u.upd = QueuedUpdate
    /\ store[j].st = "torn" /\ store[k].st = "torn"

RemoteJobHandle == {"bucketKey", "encodedUrn"}

\* C28: the result of a record on disk or about to be written, and the
\* result a status query returns, hold nothing but the translation
\* identifiers; the access token of the pipeline is in neither.
C28_ResultHoldsOnlyIdentifiers ==
  \A j \in JobIds :
    /\ store[j].st = "ok" => store[j].rec.result \subseteq RemoteJobHandle
    /\ \A t \in tasks[j] : t.rec.result \subseteq RemoteJobHandle
    /\ seen[j].result \subseteq RemoteJobHandle

\* C29: when processUpload has ended in its catch block, after the
\* directories were created, the staged directory of the job is gone.
C29_StagedDirRemovedOnStartFailure ==
  \A j \in JobIds : pc[j] = "uperr" => ~upDir[j]

\* C30: a record says completed only if the hierarchy stage and the
\* properties stage each got data and stored its artifact.
C30_CompletedHasArtifacts ==
  \A j \in JobIds :
    (store[j].st = "ok" /\ store[j].rec.status = "completed") =>
      ended[j][9] = "ok" /\ ended[j][10] = "ok"

\* The terminal update of job j has been written.
TerminalStored(j) ==
  "status" \in DOMAIN latest[j].upd /\ latest[j].upd.status \in Terminal

\* C31: under the event loop's fairness, with every remote call returning
\* and every session write succeeding, a run that has been launched reaches
\* the point where its terminal update (completed or failed) has been written
\* and processFiles has returned; no run stays in the translation, hierarchy
\* or properties loop for ever.
C31_RunsEnd ==
  \A j \in JobIds :
    /\ (pc[j] = "announce" /\ stage[j] = 1) ~> (pc[j] = "done" /\ TerminalStored(j))
    /\ \A s \in {7, 9, 10} : Running(j, s) ~> ~Running(j, s)

C31_Witness ==
  \E j \in JobIds :
    /\ pc[j] = "done" /\ TerminalStored(j) /\ tasks[j] = {}
    /\ ended[j][7] = "ok" /\ ended[j][9] = "nodata" /\ ended[j][10] = "error"

NotFoundError == "Request failed with status code 404"

\* C32: in checkTranslationStatus a round that ends in a wait without a
\* status having been reported (a not-found answer taken for not-yet-ready;
\* told from a reported status where no callback's update is pending)
\* happens only on the attempts 0, 1 and 2, counts as an attempt and leaves
\* the stage running, and on those attempts it can always happen; the
\* not-found error fails the stage only from attempt 3 on, and any other
\* request error fails it on every attempt; a failure is immediate: the
\* attempt is the last.
C32_NotFoundGrace ==
  /\ [][\A j \in JobIds :
          Running(j, 7) =>
            /\ (/\ cnt'[j] # cnt[j] /\ pc'[j] = pc[j]
                /\ tasks'[j] = tasks[j] /\ CallsPending(j) = {}) =>
                 /\ cnt[j] < NotFoundGrace /\ cnt'[j] = cnt[j] + 1
                 /\ Running(j, 7)' /\ err'[j] = err[j]
            /\ (err'[j] = NotFoundError /\ err[j] # NotFoundError) =>
                 /\ cnt[j] >= NotFoundGrace /\ cnt'[j] = cnt[j]
                 /\ pc'[j] = "failing" /\ ended'[j][7] = "error"
            /\ (err'[j] = "Network Error" /\ err[j] # "Network Error") =>
                 /\ cnt'[j] = cnt[j]
                 /\ pc'[j] = "failing" /\ ended'[j][7] = "error"]_vars
  /\ [](\A j \in JobIds :
          Running(j, 7) =>
            /\ cnt[j] < NotFoundGrace =>
                 ENABLED (/\ checkTranslationStatus(j)
                          /\ cnt'[j] = cnt[j] + 1 /\ tasks'[j] = tasks[j])
            /\ cnt[j] >= NotFoundGrace =>
                 ENABLED (checkTranslationStatus(j) /\ err'[j] = NotFoundError)
            /\ ENABLED (checkTranslationStatus(j) /\ err'[j] = "Network Error"))

C32_Witness ==
  \E j \in JobIds :
    /\ pc[j] = "failing" /\ stage[j] = 7 /\ cnt[j] = NotFoundGrace
    /\ err[j] = NotFoundError
    /\ store[j].st = "ok" /\ store[j].rec.message = StageMessage(7)
    /\ \A t \in tasks[j] : t.kind = "main"

\* C33: the answer that carries the identifier is sent only when the record
\* is on disk with status queued and progress 0, and a status query made
\* after that answer (no sweep having removed the session) is never answered
\* not-found.
C33_KnownOnceAnswered ==
  [][\A j \in JobIds :
       /\ (resp'[j] = 200 /\ resp[j] # 200) =>
            /\ RecordReadable(j)
            /\ store[j].rec.status = "queued" /\ store[j].rec.progress = 0
       /\ (resp[j] = 200 /\ seen'[j] # seen[j]) => seen'[j].code = 200]_vars

\* processUpload of job j has ended in its catch block after an error of the
\* staging, the queued record having been written before.
StagingFailed(j) == pc[j] = "uperr" /\ err[j] \in StagingFailures

C35_ReportBeforeProceeding ==
  /\ [](\A j \in JobIds :
          pc[j] = "op" => latest[j].seq >= AnnounceSeq(stage[j]))
  /\ [][\A j \in JobIds :
          (pc[j] = "op" /\ seen'[j] # seen[j] /\ seen'[j].code = 200) =>
            seen'[j].progress >= StageProgress(stage[j])]_vars

\* The step is the sweeper's examination of the session directory of job j.
Examined(j) ==
  /\ sweep.phase = "scan" /\ j \in sweep.entries
  /\ \/ sweep'.phase = "rm" /\ sweep'.cur = j
     \/ sweep'.phase = "scan" /\ j \notin sweep'.entries

\* C36: when the sweeper examines a session directory whose record is
\* missing or cannot be parsed it goes on to remove the directory; when the
\* record is readable it removes the directory exactly if the record was
\* last written before the cutoff of the sweep.
C36_UnreadableIsExpired ==
  [][\A j \in JobIds :
       Examined(j) =>
         /\ ~RecordReadable(j) => sweep'.phase = "rm"
         /\ RecordReadable(j) =>
              (sweep'.phase = "rm" <=> store[j].mtime < sweep.cutoff)]_vars

\* The error of the data stage s when its last request failed.
DataStageError(s) ==
  IF s = 9 THEN "Object hierarchy failed: Network Error"
  ELSE "Properties retrieval failed: Network Error"

\* C37: getObjectHierarchy and getProperties issue at most DataAttempts
\* requests; a response with data ends the stage at once, on any attempt;
\* a round that ends otherwise is followed by another attempt as long as
\* there is one left; the stage fails only on the last attempt, with the
\* error named after the stage, and a failure on an earlier attempt is
\* always retried.
C37_DataRetries ==
  /\ [](\A j \in JobIds : \A s \in {9, 10} :
          /\ Running(j, s) =>
               /\ cnt[j] < DataAttempts
               /\ respDir[j] => ENABLED (/\ IF s = 9 THEN getObjectHierarchy(j)
                                                       ELSE getProperties(j)
                                          /\ ended'[j][s] = "ok")
               /\ cnt[j] + 1 < DataAttempts =>
                    ENABLED (/\ IF s = 9 THEN getObjectHierarchy(j) ELSE getProperties(j)
                             /\ cnt'[j] = cnt[j] + 1)
               /\ cnt[j] + 1 = DataAttempts =>
                    ENABLED (/\ IF s = 9 THEN getObjectHierarchy(j) ELSE getProperties(j)
                             /\ err'[j] = DataStageError(s))
          /\ ended[j][s] # "none" => ~Running(j, s))
  /\ [][\A j \in JobIds : \A s \in {9, 10} :
          Running(j, s) =>
            /\ cnt'[j] # cnt[j] =>
                 \/ cnt'[j] = cnt[j] + 1 /\ Running(j, s)' /\ err'[j] = err[j]
                 \/ ended'[j][s] \in {"ok", "nodata"} /\ ~Running(j, s)'
            /\ ended'[j][s] = "nodata" => cnt[j] + 1 = DataAttempts
            /\ ended'[j][s] = "error" =>
                 /\ cnt[j] + 1 = DataAttempts /\ cnt'[j] = cnt[j]
                 /\ err'[j] = DataStageError(s) /\ pc'[j] = "failing"]_vars

C37_Witness ==
  \E j \in JobIds :
    /\ pc[j] = "failing" /\ stage[j] = 10 /\ cnt[j] + 1 = DataAttempts
    /\ ended[j][9] = "ok" /\ ended[j][10] = "error"
    /\ err[j] = DataStageError(10)

\* processUpload of job j has returned.
Returned(j) == pc[j] \in {"rejected", "uperr"} \/ resp[j] = 200

CreatedAt(rec) == <<rec.createdAt, rec.createdAtCall>>

\* C39: a write that ends an update of a job whose record has been written
\* before leaves createdAt as that record had it, however the updates of
\* the job interleave.
C39_CreatedAtNeverChanges ==
  [][\A j \in JobIds :
       (/\ store[j].st # "absent" /\ store[j].rec.createdAt # Absent("createdAt")
        /\ store'[j].st = "ok")
       => CreatedAt(store'[j].rec) = CreatedAt(store[j].rec)]_vars

====
